---- MODULE Spec2Model ----
(***************************************************************************)
(* Model of refresh_moodle_stats.py: configuration loading, the two-step   *)
(* login, the session-cookie check, reading the quiz CMID file, the batch  *)
(* loop over the statistics pages and the finally block.                   *)
(*                                                                         *)
(* Text is modelled as sequences: a cookie name and a line of the CMID     *)
(* file are sequences of one-character strings, a URL is a sequence of     *)
(* fragments (scheme+host, path segments, query parts).  Python's `in` on  *)
(* strings is containment of a contiguous subsequence.                     *)
(*                                                                         *)
(* Environment assumptions: request_delay_seconds is a non-negative finite *)
(* number (time.sleep returns normally), and the process is not            *)
(* interrupted (no KeyboardInterrupt).                                     *)
(***************************************************************************)
EXTENDS Integers, Sequences, FiniteSets, TLC

\* ------------------------------------------------------------------ bounds
\* Most lines a CMID file holds in the model.
MaxLines == 3

\* ------------------------------------------------------------- text helpers
UpperChars == <<"A","B","C","D","E","F","G","H","I","J","K","L","M",
                "N","O","P","Q","R","S","T","U","V","W","X","Y","Z">>
LowerChars == <<"a","b","c","d","e","f","g","h","i","j","k","l","m",
                "n","o","p","q","r","s","t","u","v","w","x","y","z">>

\* str.lower() on one character.
LowerChar(c) ==
    IF \E k \in 1..Len(UpperChars) : UpperChars[k] = c
    THEN LowerChars[CHOOSE k \in 1..Len(UpperChars) : UpperChars[k] = c]
    ELSE c

\* str.lower()
Lower(s) == [k \in 1..Len(s) |-> LowerChar(s[k])]

\* Python `needle in hay` for strings.
Contains(needle, hay) ==
    \E k \in 0..(Len(hay) - Len(needle)) :
        SubSeq(hay, k + 1, k + Len(needle)) = needle

\* str.strip(): drop leading and trailing whitespace.
IsSpace(c) == c \in {" ", "\t", "\n"}
Strip(s) ==
    IF \A k \in 1..Len(s) : IsSpace(s[k])
    THEN <<>>
    ELSE LET first == CHOOSE a \in 1..Len(s) :
                          /\ ~IsSpace(s[a])
                          /\ \A b \in 1..(a - 1) : IsSpace(s[b])
             last  == CHOOSE a \in 1..Len(s) :
                          /\ ~IsSpace(s[a])
                          /\ \A b \in (a + 1)..Len(s) : IsSpace(s[b])
         IN  SubSeq(s, first, last)

\* str.startswith(prefix)
StartsWith(s, prefix) ==
    /\ Len(s) >= Len(prefix)
    /\ SubSeq(s, 1, Len(prefix)) = prefix

Digits == <<"0","1","2","3","4","5","6","7","8","9">>
IsDigit(c) == \E k \in 1..Len(Digits) : Digits[k] = c
DigitVal(c) == (CHOOSE k \in 1..Len(Digits) : Digits[k] = c) - 1

RECURSIVE DigitsValue(_)
DigitsValue(s) ==
    IF Len(s) = 0 THEN 0
    ELSE 10 * DigitsValue(SubSeq(s, 1, Len(s) - 1)) + DigitVal(s[Len(s)])

\* Mutant: only digit strings are accepted (str.isdigit instead of int).
ParseInt_DigitsOnly(s) ==
    IF Len(s) > 0 /\ \A k \in 1..Len(s) : IsDigit(s[k])
    THEN [ok |-> TRUE, val |-> DigitsValue(s)]
    ELSE [ok |-> FALSE, val |-> 0]

\* int(line) on a stripped line: an optional sign followed by one or more
\* decimal digits; anything else raises ValueError (ok = FALSE).
ParseInt(s) ==
    LET signed == Len(s) > 0 /\ s[1] \in {"+", "-"}
        body   == IF signed THEN SubSeq(s, 2, Len(s)) ELSE s
        valid  == Len(body) > 0 /\ \A k \in 1..Len(body) : IsDigit(body[k])
    IN  IF ~valid THEN [ok |-> FALSE, val |-> 0]
        ELSE [ok  |-> TRUE,
              val |-> IF signed /\ s[1] = "-"
                      THEN 0 - DigitsValue(body) ELSE DigitsValue(body)]

\* ----------------------------------------------------- read_quiz_ids_from_file
\* Mutant: an identifier already in the list is not added again.
RECURSIVE ParseLines_NoDuplicates(_)
ParseLines_NoDuplicates(lines) ==
    IF Len(lines) = 0 THEN <<>>
    ELSE LET line == Strip(lines[Len(lines)])
             rest == ParseLines_NoDuplicates(SubSeq(lines, 1, Len(lines) - 1))
         IN  IF Len(line) = 0 \/ StartsWith(line, <<"#">>) THEN rest
             ELSE IF /\ ParseInt(line).ok
                     /\ \A k \in 1..Len(rest) : rest[k] # ParseInt(line).val
                  THEN Append(rest, ParseInt(line).val)
             ELSE rest

\* The list built by the loop over the lines of the file.
RECURSIVE ParseLines(_)
ParseLines(lines) ==
    IF Len(lines) = 0 THEN <<>>
    ELSE LET line == Strip(lines[Len(lines)])
             rest == ParseLines(SubSeq(lines, 1, Len(lines) - 1))
         IN  IF Len(line) = 0 \/ StartsWith(line, <<"#">>) THEN rest
             ELSE IF ParseInt(line).ok THEN Append(rest, ParseInt(line).val)
             ELSE rest

\* The line numbers for which the "Skipping invalid non-numeric value"
\* warning is written.
WarnedLines(lines) ==
    {n \in 1..Len(lines) :
        LET line == Strip(lines[n])
        IN  /\ ~(Len(line) = 0 \/ StartsWith(line, <<"#">>))
            /\ ~ParseInt(line).ok}

\* A file as the function sees it: absent (os.path.isfile is false),
\* unreadable (open or read raises), or a sequence of lines.
FileLines == { <<"1">>, <<"2">>, <<"-","1">>, <<"#","1">>, <<"a">>, <<" ">> }

RECURSIVE LinesUpTo(_)
LinesUpTo(n) ==
    IF n = 0 THEN { <<>> }
    ELSE LET shorter == LinesUpTo(n - 1)
         IN  shorter \cup { Append(f, l) : f \in {g \in shorter : Len(g) = n - 1},
                                            l \in FileLines }

Files ==
    { [kind |-> "absent", lines |-> <<>>], [kind |-> "unreadable", lines |-> <<>>] }
    \cup { [kind |-> "text", lines |-> ls] : ls \in LinesUpTo(MaxLines) }

\* The return value: None (is_none) or the list of CMIDs.
read_quiz_ids_from_file(file) ==
    IF file.kind = "text"
    THEN [is_none |-> FALSE, ids |-> ParseLines(file.lines)]
    ELSE [is_none |-> TRUE, ids |-> <<>>]

\* Lines of a CMID file with surrounding blanks, signs, several digits and
\* mixed text, for the specification of the read alone.
ReadLines ==
    { << "1" >>,
      << "2" >>,
      << "1", "2" >>,
      << "0" >>,
      << "-", "1" >>,
      << "+", "2" >>,
      << " ", "1", " " >>,
      << "0", "1" >>,
      << "#", "1" >>,
      << " ", "#" >>,
      << "a" >>,
      << "1", "a" >>,
      << "-" >>,
      << >>,
      << " " >>,
      << "1", " ", "2" >> }

\* Most lines of a file in the specification of the read alone.
MaxReadLines == 3

RECURSIVE SeqsUpTo(_, _)
SeqsUpTo(S, n) ==
    IF n = 0 THEN { <<>> }
    ELSE LET shorter == SeqsUpTo(S, n - 1)
         IN  shorter \cup { Append(f, l) : f \in {g \in shorter : Len(g) = n - 1},
                                            l \in S }

ReadFiles ==
    { [kind |-> "absent", lines |-> <<>>], [kind |-> "unreadable", lines |-> <<>>] }
    \cup { [kind |-> "text", lines |-> ls] : ls \in SeqsUpTo(ReadLines, MaxReadLines) }

\* ------------------------------------------------------------------- URLs
\* moodle_base_url after rstrip('/').
moodle_base_url == << "https://moodle.example" >>
\* login_path: '/' + login_path.lstrip('/'), the default '/login/index.php'.
login_path == << "/login", "/index.php" >>
LOGIN_URL == moodle_base_url \o login_path

\* f"{moodle_base_url}/mod/quiz/report.php?id={quiz_id}&mode=statistics"
stats_url(quiz_id) ==
    moodle_base_url \o << "/mod", "/quiz", "/report.php",
                          "?id=", ToString(quiz_id), "&mode=statistics" >>

\* Mutant: only the bare login URL is recognised.
IsLoginUrl_ExactMatch(url) == url = LOGIN_URL

\* The test applied to the final URL of the login submission and of every
\* statistics request.
IsLoginUrl(url) == Contains(LOGIN_URL, url) \/ Contains(login_path, url)

\* Final URLs the server can leave the client at.
DashboardUrl  == moodle_base_url \o << "/my", "/" >>
LoginErrorUrl == LOGIN_URL \o << "?errorcode=3" >>
SsoLoginUrl   == << "https://sso.example" >> \o login_path

\* ---------------------------------------------------------------- cookies
SessionNeedle == << "m","o","o","d","l","e","s","e","s","s","i","o","n" >>

MoodleSessionCookie == << "M","o","o","d","l","e","S","e","s","s","i","o","n","x" >>
MoodleIdCookie      == << "M","O","O","D","L","E","I","D","1","_" >>
OtherSessionCookie  == << "s","e","s","s","i","o","n" >>

\* The cookie names the client can hold after the login submission.
CookieJars ==
    { {}, { MoodleIdCookie, MoodleSessionCookie },
      { MoodleIdCookie, OtherSessionCookie } }

\* Mutant: any cookie whose name contains 'session' is accepted.
HasSessionCookie_AnySession(jar) ==
    \E n \in jar : Contains(<< "s","e","s","s","i","o","n" >>, Lower(n))

\* next((n for n in session.cookies.keys() if 'moodlesession' in n.lower()), None)
\* is not None.
HasSessionCookie(jar) == \E n \in jar : Contains(SessionNeedle, Lower(n))

\* ---------------------------------------------------------- configuration
NoneValue == "<None>"
\* Python truthiness of an optional string.
Truthy(v) == v # NoneValue /\ v # ""

ConfigValues == { NoneValue, "", "value" }
Configs ==
    [ exists   : BOOLEAN,          \* os.path.exists(config_file_path)
      parses   : BOOLEAN,          \* config.read raises no configparser.Error
      sections : SUBSET { "Moodle", "Paths", "Settings" },
      base_url : ConfigValues,
      username : ConfigValues,
      password : ConfigValues ]

\* Mutant: the user name is not validated.
ConfigAccepted_NoUsernameCheck(cfg) ==
    /\ cfg.exists
    /\ cfg.parses
    /\ "Moodle" \in cfg.sections
    /\ Truthy(cfg.base_url)
    /\ cfg.password # NoneValue
    /\ "Paths" \in cfg.sections
    /\ "Settings" \in cfg.sections

\* Configuration loading reaches the end of its try block.
ConfigAccepted(cfg) ==
    /\ cfg.exists
    /\ cfg.parses
    /\ "Moodle" \in cfg.sections
    /\ Truthy(cfg.base_url)
    /\ Truthy(cfg.username)
    /\ cfg.password # NoneValue
    /\ "Paths" \in cfg.sections       \* config.get('Paths', ...): NoSectionError
    /\ "Settings" \in cfg.sections    \* config.getfloat('Settings', ...): idem

\* --------------------------------------------------------------- responses
\* What session.get(LOGIN_URL) and raise_for_status do.
LoginGetOutcomes ==
    { "ok", "SSLError", "ConnectionError", "HTTPError", "RequestException",
      "Exception" }

\* What session.post(LOGIN_URL) and raise_for_status do: an exception, or a
\* 2xx response with a final URL and the cookies the client then holds.
LoginPostOutcomes ==
    { [exc |-> e, url |-> <<>>, jar |-> {}] :
        e \in { "SSLError", "ConnectionError", "HTTPError", "RequestException" } }
    \cup
    { [exc |-> "none", url |-> u, jar |-> j] :
        u \in { DashboardUrl, LOGIN_URL, LoginErrorUrl, SsoLoginUrl },
        j \in CookieJars }

\* What session.get(stats_url, timeout=30) and the parsing of its body do:
\* an exception, or a response with its final URL, status code and whether
\* the body carries an error/permission marker.
StatsOutcomes(quiz_id) ==
    { [exc |-> e, url |-> <<>>, status |-> 0, marker |-> FALSE] :
        e \in { "Timeout", "RequestException", "Exception" } }
    \cup
    { [exc |-> "none", url |-> stats_url(quiz_id), status |-> 200, marker |-> m] :
        m \in BOOLEAN }
    \cup
    { [exc |-> "none", url |-> stats_url(quiz_id), status |-> s, marker |-> FALSE] :
        s \in { 401, 403, 500 } }
    \cup
    { [exc |-> "none", url |-> u, status |-> s, marker |-> FALSE] :
        u \in { LOGIN_URL, SsoLoginUrl }, s \in { 200, 500 } }

NoResponse == [exc |-> "unset", url |-> <<>>, status |-> 0, marker |-> FALSE]

\* response.raise_for_status() raises HTTPError.
RaisesForStatus(status) == status >= 400 /\ status < 600

\* Mutant: 403 is left out of the authentication statuses.
IsAuthStatus_Only401(status) == status = 401

\* e.response.status_code in [401, 403]
IsAuthStatus(status) == status \in { 401, 403 }

\* ------------------------------------------------------------------- state
VARIABLES
    pc,               \* position in the script
    config,           \* the configuration file as loaded
    session,          \* "none", "open" or "closed"
    cookies,          \* names in session.cookies
    post_url,         \* response_post.url
    file,             \* the CMID file as read
    warned,           \* line numbers of the file reported as invalid
    quiz_ids_state,   \* "unbound", "None" or "list": the binding of quiz_ids
    quiz_ids,         \* the list bound to quiz_ids
    counters_bound,   \* success_count, failure_count, session_expired are bound
    success_count,
    failure_count,
    session_expired,
    i,                \* index of enumerate(quiz_ids)
    last_response,    \* outcome of the latest statistics request
    stats_requests,   \* CMIDs for which session.get(stats_url) was called
    io_log,           \* requests, sleeps, summary and close, in order
    summaries,        \* the summaries written by the finally block
    raised,           \* exception in flight: "none", "SystemExit", "NameError"
    exit_code,        \* argument of sys.exit when raised = "SystemExit"
    reported,         \* the fatal condition reported, "none" if none
    exit_status       \* process exit status once pc = "exited"

vars == << pc, config, session, cookies, post_url, file, warned, quiz_ids_state,
           quiz_ids, counters_bound, success_count, failure_count,
           session_expired, i, last_response, stats_requests, io_log,
           summaries, raised, exit_code, reported, exit_status >>

NoConfig == [ exists |-> FALSE, parses |-> FALSE, sections |-> {},
              base_url |-> NoneValue, username |-> NoneValue,
              password |-> NoneValue ]
NoFile == [ kind |-> "unread", lines |-> <<>> ]

Init ==
    /\ pc = "config"
    /\ config = NoConfig
    /\ session = "none"
    /\ cookies = {}
    /\ post_url = <<>>
    /\ file = NoFile
    /\ warned = {}
    /\ quiz_ids_state = "unbound"
    /\ quiz_ids = <<>>
    /\ counters_bound = FALSE
    /\ success_count = 0
    /\ failure_count = 0
    /\ session_expired = FALSE
    /\ i = 0
    /\ last_response = NoResponse
    /\ stats_requests = <<>>
    /\ io_log = <<>>
    /\ summaries = <<>>
    /\ raised = "none"
    /\ exit_code = 0
    /\ reported = "none"
    /\ exit_status = 0

batch_vars == << quiz_ids_state, quiz_ids, counters_bound, success_count,
                 failure_count, session_expired, i, last_response,
                 stats_requests, file, warned >>

\* sys.exit(code) inside the main try: SystemExit passes every except clause
\* and the finally block runs with it in flight.
SysExit(code, what) ==
    /\ raised' = "SystemExit"
    /\ exit_code' = code
    /\ reported' = what
    /\ pc' = "finally"

\* An exception caught by one of the outer except clauses: it is reported,
\* nothing is re-raised, and the finally block runs.
CaughtOutside(what) ==
    /\ reported' = what
    /\ pc' = "finally"
    /\ UNCHANGED << raised, exit_code >>

\* ---------------------------------------------------- configuration loading
\* Lines 36-111 and, when the configuration is accepted, the creation of the
\* session (line 168).  A rejected configuration ends the process with
\* sys.exit(1) outside the main try.
LoadConfiguration(cfg) ==
    /\ pc = "config"
    /\ config' = cfg
    /\ IF ConfigAccepted(cfg)
       THEN /\ session' = "open"
            /\ pc' = "login_get"
            /\ UNCHANGED << reported, exit_status >>
       ELSE /\ pc' = "exited"
            /\ exit_status' = 1
            /\ reported' = "config"
            /\ UNCHANGED session
    /\ UNCHANGED << cookies, post_url, io_log, summaries, raised, exit_code >>
    /\ UNCHANGED batch_vars

\* ------------------------------------------------------------ stage 1: login
LoginGet(outcome) ==
    /\ pc = "login_get"
    /\ io_log' = Append(io_log, "GET_LOGIN")
    /\ IF outcome = "ok"
       THEN /\ pc' = "login_post"
            /\ UNCHANGED << raised, exit_code, reported >>
       ELSE CaughtOutside(outcome)
    /\ UNCHANGED << config, session, cookies, post_url, summaries, exit_status >>
    /\ UNCHANGED batch_vars

LoginPost(resp) ==
    /\ pc = "login_post"
    /\ io_log' = Append(io_log, "POST_LOGIN")
    /\ IF resp.exc # "none"
       THEN /\ CaughtOutside(resp.exc)
            /\ UNCHANGED << cookies, post_url >>
       ELSE /\ cookies' = resp.jar
            /\ post_url' = resp.url
            /\ IF IsLoginUrl(resp.url)
               THEN SysExit(1, "login_failed")
               ELSE /\ pc' = "cookie"
                    /\ UNCHANGED << raised, exit_code, reported >>
    /\ UNCHANGED << config, session, summaries, exit_status >>
    /\ UNCHANGED batch_vars

\* --------------------------------------------------- stage 2: session cookie
CheckSessionCookie ==
    /\ pc = "cookie"
    /\ IF HasSessionCookie(cookies)
       THEN /\ pc' = "read"
            /\ UNCHANGED << raised, exit_code, reported >>
       ELSE SysExit(1, "no_session_cookie")
    /\ UNCHANGED << config, session, cookies, post_url, io_log, summaries,
                    exit_status >>
    /\ UNCHANGED batch_vars

\* ------------------------------------------------------ stage 3: read the ids
ReadQuizIds(f) ==
    /\ pc = "read"
    /\ file' = f
    /\ warned' = IF f.kind = "text" THEN WarnedLines(f.lines) ELSE {}
    /\ LET r == read_quiz_ids_from_file(f)
       IN  /\ quiz_ids_state' = IF r.is_none THEN "None" ELSE "list"
           /\ quiz_ids' = r.ids
           /\ IF r.is_none THEN
                 /\ SysExit(1, "no_id_file")
                 /\ UNCHANGED counters_bound
              ELSE IF Len(r.ids) = 0 THEN
                 /\ SysExit(0, "no_ids")
                 /\ UNCHANGED counters_bound
              ELSE
                 /\ counters_bound' = TRUE
                 /\ pc' = "loop"
                 /\ UNCHANGED << raised, exit_code, reported >>
    /\ success_count' = 0
    /\ failure_count' = 0
    /\ session_expired' = FALSE
    /\ UNCHANGED << i, last_response, stats_requests >>
    /\ UNCHANGED << config, session, cookies, post_url, io_log, summaries,
                    exit_status >>

\* ------------------------------------------------- stage 4: the batch loop
\* Mutant: every HTTP error is taken for an authentication error.
VisitResult_AnyHttpErrorExpires(resp) ==
    IF resp.exc # "none" THEN
        [ success |-> 0, failure |-> 1, expired |-> FALSE, continues |-> FALSE ]
    ELSE IF IsLoginUrl(resp.url) THEN
        [ success |-> 0, failure |-> 1, expired |-> TRUE, continues |-> TRUE ]
    ELSE IF RaisesForStatus(resp.status) THEN
        [ success |-> 0, failure |-> 1, expired |-> TRUE, continues |-> FALSE ]
    ELSE
        [ success |-> 1, failure |-> 0, expired |-> FALSE, continues |-> FALSE ]

\* Mutant: a page carrying an error marker is counted as a failure.
VisitResult_MarkerFails(resp) ==
    IF resp.exc # "none" THEN
        [ success |-> 0, failure |-> 1, expired |-> FALSE, continues |-> FALSE ]
    ELSE IF IsLoginUrl(resp.url) THEN
        [ success |-> 0, failure |-> 1, expired |-> TRUE, continues |-> TRUE ]
    ELSE IF RaisesForStatus(resp.status) THEN
        [ success |-> 0, failure |-> 1, expired |-> IsAuthStatus(resp.status),
          continues |-> FALSE ]
    ELSE IF resp.marker THEN
        [ success |-> 0, failure |-> 1, expired |-> FALSE, continues |-> FALSE ]
    ELSE
        [ success |-> 1, failure |-> 0, expired |-> FALSE, continues |-> FALSE ]

\* Mutant: the status is checked before the final URL.
VisitResult_StatusFirst(resp) ==
    IF resp.exc # "none" THEN
        [ success |-> 0, failure |-> 1, expired |-> FALSE, continues |-> FALSE ]
    ELSE IF RaisesForStatus(resp.status) THEN
        [ success |-> 0, failure |-> 1, expired |-> IsAuthStatus(resp.status),
          continues |-> FALSE ]
    ELSE IF IsLoginUrl(resp.url) THEN
        [ success |-> 0, failure |-> 1, expired |-> TRUE, continues |-> TRUE ]
    ELSE
        [ success |-> 1, failure |-> 0, expired |-> FALSE, continues |-> FALSE ]

\* How one pass of the loop body ends for a given outcome of session.get:
\* what is added to success_count and failure_count, the new value of
\* session_expired, and whether the pass ends by `continue` (no sleep).
VisitResult(resp) ==
    IF resp.exc # "none" THEN
        \* except Timeout / RequestException / Exception
        [ success |-> 0, failure |-> 1, expired |-> FALSE, continues |-> FALSE ]
    ELSE IF IsLoginUrl(resp.url) THEN
        [ success |-> 0, failure |-> 1, expired |-> TRUE, continues |-> TRUE ]
    ELSE IF RaisesForStatus(resp.status) THEN
        \* except HTTPError
        [ success |-> 0, failure |-> 1, expired |-> IsAuthStatus(resp.status),
          continues |-> FALSE ]
    ELSE
        \* a marker in the body only writes a warning
        [ success |-> 1, failure |-> 0, expired |-> FALSE, continues |-> FALSE ]

\* Mutant: the loop stops one item short.
HasNext_OffByOne(idx, ids) == idx < Len(ids) - 1

\* enumerate(quiz_ids) has another item.
HasNext(idx, ids) == idx < Len(ids)

\* The test at the top of the loop body.
SkipsRemaining(expired) == expired

\* failure_count as assigned when the remaining quizzes are skipped.
SkippedFailureCount(failures, ids, idx) == Len(ids) - idx

\* Mutant: the pause is taken after the last item too.
SleepsAfter_AlsoAfterLast(idx, ids) == idx < Len(ids)

\* if i < len(quiz_ids) - 1: time.sleep(request_delay_seconds)
SleepsAfter(idx, ids) == idx < Len(ids) - 1

\* The CMID the pass with index idx requests.
QuizIdAt(ids, idx) == ids[idx + 1]

\* One pass of the loop body that issues the request, for one outcome.
Visit(resp) ==
    LET r == VisitResult(resp)
    IN  /\ stats_requests' = Append(stats_requests, QuizIdAt(quiz_ids, i))
        /\ last_response' = resp
        /\ success_count' = success_count + r.success
        /\ failure_count' = failure_count + r.failure
        /\ session_expired' = (session_expired \/ r.expired)
        /\ io_log' = IF ~r.continues /\ SleepsAfter(i, quiz_ids)
                     THEN io_log \o << "GET_STATS", "SLEEP" >>
                     ELSE Append(io_log, "GET_STATS")
        /\ i' = i + 1
        /\ UNCHANGED << pc, config, session, cookies, post_url, file, warned,
                        quiz_ids_state, quiz_ids, counters_bound, summaries,
                        raised, exit_code, reported, exit_status >>

VisitQuiz ==
    /\ pc = "loop"
    /\ HasNext(i, quiz_ids)
    /\ ~SkipsRemaining(session_expired)
    /\ \E resp \in StatsOutcomes(QuizIdAt(quiz_ids, i)) : Visit(resp)

\* The pass that finds session_expired set: the remaining quizzes are
\* counted and the loop is left by `break`.
SkipRemaining ==
    /\ pc = "loop"
    /\ HasNext(i, quiz_ids)
    /\ SkipsRemaining(session_expired)
    /\ failure_count' = SkippedFailureCount(failure_count, quiz_ids, i)
    /\ pc' = "finally"
    /\ UNCHANGED << config, session, cookies, post_url, file, warned,
                    quiz_ids_state, quiz_ids, counters_bound, success_count,
                    session_expired,
                    i, last_response, stats_requests, io_log, summaries,
                    raised, exit_code, reported, exit_status >>

\* The list is exhausted: the try block ends normally.
LoopExhausted ==
    /\ pc = "loop"
    /\ ~HasNext(i, quiz_ids)
    /\ pc' = "finally"
    /\ UNCHANGED << config, session, cookies, post_url, io_log, summaries,
                    raised, exit_code, reported, exit_status >>
    /\ UNCHANGED batch_vars

\* --------------------------------------------------------- the finally block
\* Mutant: the test on None is inverted.
WritesSummary_Inverted(state) == state = "None"

\* if 'quiz_ids' in locals() and quiz_ids is not None
WritesSummary(state) == state = "list"

\* The four values written by the summary.
Summary ==
    [ read      |-> Len(quiz_ids),
      attempted |-> success_count + failure_count,
      succeeded |-> success_count,
      failed    |-> failure_count ]

\* Mutant: SystemExit is swallowed like any other exception.
ExitStatus_Swallowed(exc, code) == 0

\* The status the process ends with when the finally block completes: the
\* argument of a sys.exit in flight, 0 when the script runs off its end
\* (also after an exception caught by an outer except clause).
ExitStatus(exc, code) == IF exc = "SystemExit" THEN code ELSE 0

\* The finally block, then the end of the process.  Reading success_count
\* while it is unbound raises NameError inside the block: the rest of the
\* block (the summary lines, session.close) is not executed and the process
\* ends with the traceback and status 1.
Finally ==
    /\ pc = "finally"
    /\ pc' = "exited"
    /\ IF WritesSummary(quiz_ids_state) /\ ~counters_bound THEN
          /\ io_log' = Append(io_log, "SUMMARY_HEADER")
          /\ raised' = "NameError"
          /\ exit_status' = 1
          /\ UNCHANGED << summaries, session >>
       ELSE
          /\ IF WritesSummary(quiz_ids_state)
             THEN /\ summaries' = Append(summaries, Summary)
                  /\ io_log' = io_log \o << "SUMMARY_HEADER", "SUMMARY", "CLOSE" >>
             ELSE /\ io_log' = Append(io_log, "CLOSE")
                  /\ UNCHANGED summaries
          /\ session' = "closed"
          /\ exit_status' = ExitStatus(raised, exit_code)
          /\ UNCHANGED raised
    /\ UNCHANGED << config, cookies, post_url, exit_code, reported >>
    /\ UNCHANGED batch_vars

\* ------------------------------------------------------------ specification
Next ==
    \/ pc = "config" /\ \E cfg \in Configs : LoadConfiguration(cfg)
    \/ pc = "login_get" /\ \E outcome \in LoginGetOutcomes : LoginGet(outcome)
    \/ pc = "login_post" /\ \E resp \in LoginPostOutcomes : LoginPost(resp)
    \/ CheckSessionCookie
    \/ pc = "read" /\ \E f \in Files : ReadQuizIds(f)
    \/ VisitQuiz
    \/ SkipRemaining
    \/ LoopExhausted
    \/ Finally

Spec == Init /\ [][Next]_vars

\* ------------------------------------------------------------------ claims
\* The batch stage was entered: the list was read and is not empty.
BatchEntered == counters_bound

Ended == pc = "exited"

\* The main try block was entered (the session exists).
MainStageEntered == session # "none"

IsRequest(e) == e \in { "GET_LOGIN", "POST_LOGIN", "GET_STATS" }
NetworkRequests == SelectSeq(io_log, IsRequest)

\* A statistics response that signals session expiry: its final URL is the
\* login page, or its status is 401 or 403.
ExpirySignal(resp) ==
    /\ resp.exc = "none"
    /\ (Contains(login_path, resp.url) \/ resp.status \in { 401, 403 })

\* A statistics request that ended in a per-item error: a timeout, a network
\* error, an unexpected exception, or an HTTP error status on a page that is
\* not the login page.
ItemError(resp) ==
    \/ resp.exc \in { "Timeout", "RequestException", "Exception" }
    \/ /\ resp.exc = "none"
       /\ ~Contains(login_path, resp.url)
       /\ resp.status >= 400

\* C1: once a statistics response has signalled session expiry (final URL on
\* the login page, or status 401/403), no step issues a further network
\* request.
C1_NoRequestAfterExpiry ==
    [][ ExpirySignal(last_response) =>
            /\ stats_requests' = stats_requests
            /\ NetworkRequests' = NetworkRequests ]_vars

\* C1 witness: the run has ended after a 401/403 response with identifiers
\* still unvisited.
C1_Witness ==
    /\ Ended
    /\ last_response.exc = "none"
    /\ last_response.status \in { 401, 403 }
    /\ ~Contains(login_path, last_response.url)
    /\ Len(stats_requests) < Len(quiz_ids)

\* C2 (as claimed): in every summary written, succeeded plus failed/skipped
\* equals the number of identifiers read.
C2_CountsAddUp ==
    \A k \in 1..Len(summaries) :
        summaries[k].succeeded + summaries[k].failed = summaries[k].read

\* C3 (as claimed): when expiry is signalled by the k-th request of N, the
\* run issues exactly k requests, reports at most k-1 successes and reports
\* at least the N-k+1 failures of the expiry item and the skipped ones.
C3_ExpiryCounts ==
    (Ended /\ BatchEntered /\ ExpirySignal(last_response)) =>
        LET k == Len(stats_requests)
            N == Len(quiz_ids)
        IN  /\ Len(summaries) = 1
            /\ summaries[1].succeeded <= k - 1
            /\ summaries[1].failed >= N - k + 1

\* C4: the requests issued are always a prefix of the identifier list, and a
\* batch that ends without session expiry detected has issued exactly one
\* request per entry, in list order.
C4_OneRequestPerEntry ==
    BatchEntered =>
        /\ Len(stats_requests) <= Len(quiz_ids)
        /\ stats_requests = SubSeq(quiz_ids, 1, Len(stats_requests))
        /\ (pc \in { "finally", "exited" } /\ ~session_expired)
               => stats_requests = quiz_ids

\* C4 witness: a finished run without expiry over a list with a repeated
\* identifier, with both successes and failures.
C4_Witness ==
    /\ Ended
    /\ BatchEntered
    /\ ~session_expired
    /\ Len(quiz_ids) >= 3
    /\ quiz_ids[1] = quiz_ids[2]
    /\ quiz_ids[3] # quiz_ids[1]
    /\ success_count >= 1
    /\ failure_count >= 1

\* C5: a request that ends in a per-item error adds one to the failures and
\* nothing to the successes, leaves the loop running at the next index, and
\* sets the expiry flag exactly when the error is an HTTP 401 or 403; and a
\* batch never ends on a per-item error other than 401/403 unless that
\* request was for the last identifier.
C5_ItemErrorIsolated ==
    /\ [][ (stats_requests' # stats_requests /\ ItemError(last_response')) =>
               /\ failure_count' = failure_count + 1
               /\ success_count' = success_count
               /\ pc' = "loop"
               /\ i' = i + 1
               /\ session_expired' = (last_response'.status \in { 401, 403 }) ]_vars
    /\ [](( /\ pc \in { "finally", "exited" }
            /\ BatchEntered
            /\ ItemError(last_response)
            /\ last_response.status \notin { 401, 403 })
          => Len(stats_requests) = Len(quiz_ids))

\* C5 witness: after a timeout the loop stands at the next identifier with the
\* failure counted and no expiry flagged.
C5_Witness ==
    /\ pc = "loop"
    /\ last_response.exc = "Timeout"
    /\ HasNext(i, quiz_ids)
    /\ failure_count >= 1
    /\ ~session_expired

C7_SessionClosedOnExit ==
    (Ended /\ MainStageEntered) => session = "closed"

\* The login stage was stopped by an exception caught by an outer except
\* clause.
LoginStageError ==
    reported \in (LoginGetOutcomes \ { "ok" })

\* C8 (as claimed): the process ends with a non-zero status on a rejected
\* configuration, a missing identifier file and a failed authentication, and
\* in every other case it ends with a summary.
C8_ExitBehaviour ==
    Ended =>
        IF reported \in { "config", "no_id_file", "login_failed" }
        THEN exit_status # 0
        ELSE Len(summaries) = 1

\* C8 (amended): a rejected configuration, a failed authentication, a missing
\* session cookie and a missing or unreadable identifier file end the process
\* with status 1 and no summary; an error caught in the login stage ends it
\* with status 0 and no summary; a run that entered the batch stage ends with
\* status 0 and one summary, whatever the per-item outcomes.
C8_ExitBehaviourAmended ==
    Ended =>
        /\ reported \in { "config", "login_failed", "no_session_cookie",
                          "no_id_file" }
               => (exit_status = 1 /\ Len(summaries) = 0)
        /\ LoginStageError => (exit_status = 0 /\ Len(summaries) = 0)
        /\ BatchEntered => (exit_status = 0 /\ Len(summaries) = 1)

\* C8 witness: a run whose every request failed has ended with status 0 and
\* a summary.
C8_Witness ==
    /\ Ended
    /\ BatchEntered
    /\ success_count = 0
    /\ failure_count = Len(quiz_ids)
    /\ Len(quiz_ids) >= 2
    /\ exit_status = 0
    /\ Len(summaries) = 1

\* C9: when the final URL of the login submission contains the login path,
\* the login is reported failed, the run goes straight to its end with
\* status 1, and no statistics request is issued.
C9_LoginFailureStopsRun ==
    (post_url # <<>> /\ Contains(login_path, post_url)) =>
        /\ reported = "login_failed"
        /\ pc \in { "finally", "exited" }
        /\ Ended => exit_status = 1
        /\ quiz_ids_state = "unbound"
        /\ stats_requests = <<>>

\* C9 witness: the run has ended after a login submission that came back to
\* the login page with an error code.
C9_Witness ==
    /\ Ended
    /\ post_url = LoginErrorUrl
    /\ reported = "login_failed"

\* The login submission was classified as successful.
LoginAccepted == post_url # <<>> /\ ~Contains(login_path, post_url)

\* C10: after a login classified as successful and past the cookie check, a
\* cookie jar without a name containing 'moodlesession' in any letter case
\* means the run has failed fatally: status 1, the identifier file unread,
\* no statistics request.
C10_MissingCookieIsFatal ==
    ( /\ LoginAccepted
      /\ pc # "cookie"
      /\ ~\E n \in cookies : Contains(SessionNeedle, Lower(n)) ) =>
        /\ reported = "no_session_cookie"
        /\ pc \in { "finally", "exited" }
        /\ Ended => exit_status = 1
        /\ file = NoFile
        /\ quiz_ids_state = "unbound"
        /\ stats_requests = <<>>

\* C10 witness: the run has ended on the cookie check with cookies that do
\* not name a Moodle session.
C10_Witness ==
    /\ Ended
    /\ LoginAccepted
    /\ cookies = { MoodleIdCookie, OtherSessionCookie }
    /\ reported = "no_session_cookie"


IsBatchEvent(e) == e \in { "GET_STATS", "SLEEP" }
\* The statistics requests and the pauses of the batch, in order.
BatchEvents == SelectSeq(io_log, IsBatchEvent)
IsPause(e) == e = "SLEEP"
Pauses == SelectSeq(io_log, IsPause)

\* C11: a finished run in which every one of the N identifiers was visited
\* successfully has taken N-1 pauses, one after each request but the last.
C11_PausesBetweenItems ==
    (Ended /\ BatchEntered /\ success_count = Len(quiz_ids)) =>
        /\ Len(Pauses) = Len(quiz_ids) - 1
        /\ BatchEvents = [ k \in 1..(2 * Len(quiz_ids) - 1) |->
                             IF k % 2 = 1 THEN "GET_STATS" ELSE "SLEEP" ]

\* C11 witness: a finished, fully successful run over three identifiers.
C11_Witness ==
    /\ Ended
    /\ BatchEntered
    /\ Len(quiz_ids) = 3
    /\ success_count = 3

\* A 2xx statistics response that is not the login page and whose body was
\* parsed to the end with an error/permission marker found.
MarkedPage(resp) ==
    /\ resp.exc = "none"
    /\ ~Contains(login_path, resp.url)
    /\ resp.status >= 200 /\ resp.status < 300
    /\ resp.marker

LacksRequiredField(cfg) ==
    \/ ~cfg.exists
    \/ "Moodle" \notin cfg.sections
    \/ cfg.base_url \in { NoneValue, "" }
    \/ cfg.username \in { NoneValue, "" }
    \/ cfg.password = NoneValue

\* C13: once a configuration lacking a required field has been loaded, the
\* process has ended with status 1 and stays without a session and without
\* any network request.
C13_BadConfigNoNetwork ==
    (pc # "config" /\ LacksRequiredField(config)) =>
        /\ Ended
        /\ exit_status = 1
        /\ reported = "config"
        /\ session = "none"
        /\ io_log = <<>>
        /\ stats_requests = <<>>

\* C13 witness: the process has ended on a configuration that is complete
\* but for an empty user name.
C13_Witness ==
    /\ Ended
    /\ config.exists /\ config.parses
    /\ config.sections = { "Moodle", "Paths", "Settings" }
    /\ config.base_url = "value"
    /\ config.username = ""
    /\ config.password = "value"
    /\ io_log = <<>>

\* A statistics response whose final URL is the login page.
LoginRedirect(resp) == resp.exc = "none" /\ Contains(login_path, resp.url)

\* C16: a statistics response whose final URL is the login page counts its
\* identifier as failed and sets the expiry flag whatever its status code; a
\* response that is not such a redirect and has an error status other than
\* 401/403 counts as failed without setting the flag.
C16_RedirectBeforeStatus ==
    [][ stats_requests' # stats_requests =>
            /\ LoginRedirect(last_response') =>
                   /\ failure_count' = failure_count + 1
                   /\ success_count' = success_count
                   /\ session_expired' = TRUE
            /\ ( /\ last_response'.exc = "none"
                 /\ ~LoginRedirect(last_response')
                 /\ last_response'.status >= 400
                 /\ last_response'.status \notin { 401, 403 } ) =>
                   /\ failure_count' = failure_count + 1
                   /\ session_expired' = FALSE ]_vars

\* C16 witness: a response on the login page with status 500 has flagged
\* expiry.
C16_Witness ==
    /\ LoginRedirect(last_response)
    /\ last_response.status = 500
    /\ session_expired
    /\ failure_count >= 1

\* C17 (as claimed): in a finished run every pause is directly followed by
\* a statistics request.
C17_PauseThenRequest ==
    Ended =>
        \A p \in 1..Len(io_log) :
            io_log[p] = "SLEEP" =>
                (p < Len(io_log) /\ io_log[p + 1] = "GET_STATS")

\* C18 (as claimed): a run whose identifier file yields no identifier issues
\* no statistics request and ends with status 0, the finally block raising
\* nothing.
C18_EmptyListEndsCleanly ==
    (Ended /\ quiz_ids_state = "list" /\ Len(quiz_ids) = 0) =>
        /\ stats_requests = <<>>
        /\ raised # "NameError"
        /\ exit_status = 0


\* ------------------------------------------- the read alone: specification
AcceptedConfig ==
    [ exists |-> TRUE, parses |-> TRUE,
      sections |-> { "Moodle", "Paths", "Settings" },
      base_url |-> "value", username |-> "value", password |-> "value" ]

\* The script about to read the CMID file, after a login that was accepted
\* and left a Moodle session cookie.
ReadInit ==
    /\ pc = "read"
    /\ config = AcceptedConfig
    /\ session = "open"
    /\ cookies = { MoodleIdCookie, MoodleSessionCookie }
    /\ post_url = DashboardUrl
    /\ file = NoFile
    /\ warned = {}
    /\ quiz_ids_state = "unbound"
    /\ quiz_ids = <<>>
    /\ counters_bound = FALSE
    /\ success_count = 0
    /\ failure_count = 0
    /\ session_expired = FALSE
    /\ i = 0
    /\ last_response = NoResponse
    /\ stats_requests = <<>>
    /\ io_log = << "GET_LOGIN", "POST_LOGIN" >>
    /\ summaries = <<>>
    /\ raised = "none"
    /\ exit_code = 0
    /\ reported = "none"
    /\ exit_status = 0

NextRead == pc = "read" /\ \E f \in ReadFiles : ReadQuizIds(f)

SpecRead == ReadInit /\ [][NextRead]_vars

\* What Python does with each line of ReadLines in the loop body of
\* read_quiz_ids_from_file (strip, blank/comment test, int): the line is
\* ignored, yields an identifier, or is reported as invalid.
Reading(l) ==
    CASE l = << "1" >>              -> [ kind |-> "id", val |-> 1 ]
      [] l = << "2" >>              -> [ kind |-> "id", val |-> 2 ]
      [] l = << "1", "2" >>         -> [ kind |-> "id", val |-> 12 ]
      [] l = << "0" >>              -> [ kind |-> "id", val |-> 0 ]
      [] l = << "-", "1" >>         -> [ kind |-> "id", val |-> 0 - 1 ]
      [] l = << "+", "2" >>         -> [ kind |-> "id", val |-> 2 ]
      [] l = << " ", "1", " " >>    -> [ kind |-> "id", val |-> 1 ]
      [] l = << "0", "1" >>         -> [ kind |-> "id", val |-> 1 ]
      [] l = << "#", "1" >>         -> [ kind |-> "ignored", val |-> 0 ]
      [] l = << " ", "#" >>         -> [ kind |-> "ignored", val |-> 0 ]
      [] l = << "a" >>              -> [ kind |-> "invalid", val |-> 0 ]
      [] l = << "1", "a" >>         -> [ kind |-> "invalid", val |-> 0 ]
      [] l = << "-" >>              -> [ kind |-> "invalid", val |-> 0 ]
      [] l = << >>                  -> [ kind |-> "ignored", val |-> 0 ]
      [] l = << " " >>              -> [ kind |-> "ignored", val |-> 0 ]
      [] l = << "1", " ", "2" >>    -> [ kind |-> "invalid", val |-> 0 ]

\* The identifiers of the lines that yield one, in file order.
RECURSIVE IdsOf(_)
IdsOf(lines) ==
    IF Len(lines) = 0 THEN <<>>
    ELSE IF Reading(lines[1]).kind = "id"
         THEN << Reading(lines[1]).val >> \o IdsOf(Tail(lines))
         ELSE IdsOf(Tail(lines))

\* C14 (as claimed): the list read holds the identifiers of the numeric
\* lines in file order, and a warning is recorded for every line left out,
\* blank and comment lines included.
C14_WarningPerSkippedLine ==
    file.kind = "text" =>
        /\ quiz_ids = IdsOf(file.lines)
        /\ warned = { n \in 1..Len(file.lines) :
                        Reading(file.lines[n]).kind # "id" }

\* C14 (amended): the list read holds the identifiers of the numeric lines
\* in file order, duplicates kept; a warning is recorded for every
\* non-numeric line and for no blank or comment line.
C14_WarningPerInvalidLine ==
    file.kind = "text" =>
        /\ quiz_ids = IdsOf(file.lines)
        /\ warned = { n \in 1..Len(file.lines) :
                        Reading(file.lines[n]).kind = "invalid" }

\* C14 witness: a file with a comment line, a non-numeric line and a numeric
\* line has been read, giving one identifier and one warning.
C14_Witness ==
    /\ file.kind = "text"
    /\ file.lines = << << "#", "1" >>, << "1", "a" >>, << "0", "1" >> >>
    /\ quiz_ids = << 1 >>
    /\ warned = { 2 }

\* C15 (as claimed): every identifier read, and every identifier requested,
\* is a positive integer.
C15_IdsArePositive ==
    /\ \A k \in 1..Len(quiz_ids) : quiz_ids[k] > 0
    /\ \A k \in 1..Len(stats_requests) : stats_requests[k] > 0

\* C15 (amended): the identifiers read are the values of the lines holding
\* an optionally signed decimal number, zero and negative values included,
\* and every identifier requested is one of them, at its place in the list.
C15_IdsAreIntegerLines ==
    file.kind = "text" =>
        /\ \A n \in 1..Len(file.lines) :
               Reading(file.lines[n]).kind = "id" =>
                   \E k \in 1..Len(quiz_ids) :
                       quiz_ids[k] = Reading(file.lines[n]).val
        /\ \A k \in 1..Len(quiz_ids) :
               \E n \in 1..Len(file.lines) :
                   /\ Reading(file.lines[n]).kind = "id"
                   /\ Reading(file.lines[n]).val = quiz_ids[k]
        /\ \A k \in 1..Len(stats_requests) :
               /\ k <= Len(quiz_ids)
               /\ stats_requests[k] = quiz_ids[k]

\* C15 witness: a statistics request has been issued for a negative
\* identifier.
C15_Witness ==
    /\ Len(stats_requests) >= 1
    /\ stats_requests[Len(stats_requests)] < 0
    /\ last_response.exc = "none"

====
